---- MODULE Spec2Model ----
(***************************************************************************)
(* Model of staticfiles' collectstatic management command                  *)
(* (src/staticfiles/management/commands/collectstatic.py).                 *)
(*                                                                         *)
(* The finders, the source storages and the destination storage are the    *)
(* command's collaborators.  A finder is modelled by the set of            *)
(* destination names its list() yields (the name copy_file computes from   *)
(* prefix and source), a source file by its modification time, and the     *)
(* destination storage by a map from destination name to the entry stored  *)
(* under it.  One run of handle_noargs is a sequence of steps: option      *)
(* handling, the symlink checks, the confirmation prompt, one copy_file    *)
(* call per discovered file, and the summary.                              *)
(***************************************************************************)
EXTENDS Integers, Sequences, FiniteSets, TLC

\* ------------------------------------------------------------- bounds
NumFinders == 2
NumPaths == 2
MaxTime == 2
MaxRuns == 2
\* Names 1..NumShared may be yielded by every finder, the others by finder 1 only.
NumShared == 1

Finders == 1..NumFinders
Paths == 1..NumPaths
Times == 1..MaxTime

\* ------------------------------------------------------------- program constants
STATUS_COPY == 0
STATUS_SKIP == 1
REASON_ALREADY_COPIED == 1
REASON_ALREADY_LINKED == 3
REASON_NOT_MODIFIED == 2
NO_DETAIL == 0

\* What the operator may type at the prompt.
Answers == {"yes", "no", "Yes"}

VARIABLES
    \* the environment of the command
    listing,            \* listing[f]: destination names finder f yields
    src_mtime,          \* src_mtime[f][p]: modification time of finder f's source for p
    src_mtime_ok,       \* src_mtime_ok[f]: f's source storage can report modified_time
    dst_mtime_ok,       \* the destination storage can report modified_time
    platform_win32,     \* sys.platform == 'win32'
    destination_local,  \* Command.destination_local
    faulty,             \* the destination storage may fail in delete and in a write
    dest,               \* destination storage: name -> entry
    \* the options of the run
    link, dry_run, interactive,
    \* options the operator keeps from run to run
    verbosity,          \* options['verbosity']
    use_default_ignore_patterns,
    ignore_option,      \* the list object options['ignore_patterns']
    \* the run
    pc,                 \* position in handle_noargs
    error,              \* the exception the run ended with
    confirm,            \* what raw_input returned ("-" when not asked)
    cursor,             \* number of (finder, name) slots the loops have passed
    copied_files, symlinked_files, unmodified_files,
    last,               \* what the last copy_file call saw and decided
    ops,                \* destination mutations of this run, in order
    ignore_given,       \* options['ignore_patterns'] as this run received it
    ignore_patterns,    \* the local ignore_patterns after line 65, as a set
    passed,             \* passed[f]: <<patterns>> once finder f's list() was called
    examined,           \* the slots copy_file was called for, in order
    stdout,             \* the summary line written, if any
    \* bookkeeping across runs
    runs_left,          \* invocations of the command still to come
    dest0,              \* the destination storage when this run started
    prev,               \* the previous run: its options and whether it finished
    twin                \* the same run under --dry-run, from dest0, in lockstep

vars == <<listing, src_mtime, src_mtime_ok, dst_mtime_ok, platform_win32,
          destination_local, dest, link, dry_run, interactive, pc, error,
          confirm, cursor, copied_files, symlinked_files, unmodified_files,
          last, ops, runs_left, dest0, prev, twin, faulty, verbosity,
          use_default_ignore_patterns, ignore_option, ignore_given,
          ignore_patterns, passed, examined, stdout>>

env == <<listing, src_mtime, src_mtime_ok, dst_mtime_ok, platform_win32,
         destination_local, faulty, verbosity, use_default_ignore_patterns>>

\* What a run leaves alone once handle_noargs has read the options.
report == <<ignore_option, ignore_given, ignore_patterns>>

\* ------------------------------------------------------------- storage
NoEntry == [kind |-> "none", mtime |-> 0, origin |-> 0]
FileEntry(t, f) == [kind |-> "file", mtime |-> t, origin |-> f]
LinkEntry(f) == [kind |-> "link", mtime |-> 0, origin |-> f]

\* destination_storage.exists(name)
exists(d, p) == d[p].kind # "none"

\* os.path.islink(destination_storage.path(name))
islink(d, p) == d[p].kind = "link"

\* destination_storage.modified_time(name): a link reports its target's time
modified_time(d, p) ==
    IF d[p].kind = "link" THEN src_mtime[d[p].origin][p] ELSE d[p].mtime

\* source_storage.modified_time(source), 0 when it raises
SourceLastModified(f, p) == IF src_mtime_ok[f] THEN src_mtime[f][p] ELSE 0

\* ------------------------------------------------------------- the finder loops
\* Slot k of the nested loops is finder SlotFinder(k), name SlotPath(k).
NumSlots == NumFinders * NumPaths
SlotFinder(k) == ((k - 1) \div NumPaths) + 1
SlotPath(k) == ((k - 1) % NumPaths) + 1
Listed(k) == SlotPath(k) \in listing[SlotFinder(k)]

\* The loops passing over the file that comes next.
NextSlotSkipping(c) ==
    LET rest == {k \in (c + 2)..NumSlots : Listed(k)}
    IN  IF rest = {} THEN 0 ELSE CHOOSE k \in rest : \A j \in rest : k <= j

\* The next discovered file after slot c, 0 when the loops are over.
NextSlot(c) ==
    LET rest == {k \in (c + 1)..NumSlots : Listed(k)}
    IN  IF rest = {} THEN 0 ELSE CHOOSE k \in rest : \A j \in rest : k <= j

\* All discovered files, as a set of slots.
Discovered == {k \in 1..NumSlots : Listed(k)}
DiscoveredPaths == {SlotPath(k) : k \in Discovered}

\* ------------------------------------------------------------- Command.file_has_changed
\* Equal times counted as a change.
file_has_changed_or_equal(d, f, p) ==
    IF ~dst_mtime_ok
    THEN TRUE
    ELSE SourceLastModified(f, p) >= modified_time(d, p)

\* Lines 195-207.
file_has_changed(d, f, p) ==
    IF ~dst_mtime_ok
    THEN TRUE
    ELSE SourceLastModified(f, p) > modified_time(d, p)

\* ------------------------------------------------------------- Command.file_status
\* file_status without the lookups of lines 183-186.
file_status_unclaimed(d, c, s, l, f, p) ==
    IF exists(d, p) /\ file_has_changed(d, f, p)
    THEN IF ~destination_local
         THEN [status |-> STATUS_COPY, detail |-> NO_DETAIL, raised |-> TRUE]
         ELSE IF ~l /\ ~islink(d, p)
         THEN [status |-> STATUS_SKIP, detail |-> REASON_NOT_MODIFIED, raised |-> FALSE]
         ELSE [status |-> STATUS_COPY, detail |-> NO_DETAIL, raised |-> FALSE]
    ELSE [status |-> STATUS_COPY, detail |-> NO_DETAIL, raised |-> FALSE]

\* file_status without the self.symlink test of line 191.
file_status_ignoring_mode(d, c, s, l, f, p) ==
    IF p \in c
    THEN [status |-> STATUS_SKIP, detail |-> REASON_ALREADY_COPIED, raised |-> FALSE]
    ELSE IF p \in s
    THEN [status |-> STATUS_SKIP, detail |-> REASON_ALREADY_LINKED, raised |-> FALSE]
    ELSE IF exists(d, p) /\ file_has_changed(d, f, p)
    THEN IF ~destination_local
         THEN [status |-> STATUS_COPY, detail |-> NO_DETAIL, raised |-> TRUE]
         ELSE IF ~islink(d, p)
         THEN [status |-> STATUS_SKIP, detail |-> REASON_NOT_MODIFIED, raised |-> FALSE]
         ELSE [status |-> STATUS_COPY, detail |-> NO_DETAIL, raised |-> FALSE]
    ELSE [status |-> STATUS_COPY, detail |-> NO_DETAIL, raised |-> FALSE]

\* file_status without the islink test of line 191.
file_status_ignoring_links(d, c, s, l, f, p) ==
    IF p \in c
    THEN [status |-> STATUS_SKIP, detail |-> REASON_ALREADY_COPIED, raised |-> FALSE]
    ELSE IF p \in s
    THEN [status |-> STATUS_SKIP, detail |-> REASON_ALREADY_LINKED, raised |-> FALSE]
    ELSE IF exists(d, p) /\ file_has_changed(d, f, p)
    THEN IF ~destination_local
         THEN [status |-> STATUS_COPY, detail |-> NO_DETAIL, raised |-> TRUE]
         ELSE IF ~l
         THEN [status |-> STATUS_SKIP, detail |-> REASON_NOT_MODIFIED, raised |-> FALSE]
         ELSE [status |-> STATUS_COPY, detail |-> NO_DETAIL, raised |-> FALSE]
    ELSE [status |-> STATUS_COPY, detail |-> NO_DETAIL, raised |-> FALSE]

\* c, s: copied_files and symlinked_files; l: the --link option.
\* raised: destination_storage.path() raised NotImplementedError (line 190).
file_status(d, c, s, l, f, p) ==
    IF p \in c
    THEN [status |-> STATUS_SKIP, detail |-> REASON_ALREADY_COPIED, raised |-> FALSE]
    ELSE IF p \in s
    THEN [status |-> STATUS_SKIP, detail |-> REASON_ALREADY_LINKED, raised |-> FALSE]
    ELSE IF exists(d, p) /\ file_has_changed(d, f, p)
    THEN IF ~destination_local
         THEN [status |-> STATUS_COPY, detail |-> NO_DETAIL, raised |-> TRUE]
         ELSE IF ~l /\ ~islink(d, p)
         THEN [status |-> STATUS_SKIP, detail |-> REASON_NOT_MODIFIED, raised |-> FALSE]
         ELSE [status |-> STATUS_COPY, detail |-> NO_DETAIL, raised |-> FALSE]
    ELSE [status |-> STATUS_COPY, detail |-> NO_DETAIL, raised |-> FALSE]

\* ------------------------------------------------------------- Command.copy_file
\* The entry a write leaves at the destination.
\* Symlink mode: os.symlink.  Copy mode, local destination: shutil.copy2, which
\* keeps the source's modification time.  Copy mode, other destination:
\* destination_storage.save, which stamps the entry with the storage's time t.
Written(l, f, p, t) ==
    IF l THEN LinkEntry(f)
    ELSE IF destination_local THEN FileEntry(src_mtime[f][p], f)
    ELSE FileEntry(t, f)

\* Lines 128-135: the delete is skipped under dry-run.
Deletes(dry) == ~dry

\* The write done under dry-run too.
WritesAlways(dry) == TRUE

\* Lines 139-151 and 154-174: the write is skipped under dry-run.
Writes(dry) == ~dry

\* The name recorded only when the write was done.
RecordsWhenWritten(dry) == ~dry

\* Lines 152 and 175: the name is recorded, under dry-run too.
Records(dry) == TRUE

\* fault: the storage call of this copy_file call that raises an unexpected
\* error ("delete": line 135; "write": lines 151, 165, 170-171), if it is made.
DeleteRaises(dry, fault) == Deletes(dry) /\ fault = "delete"
WriteRaises(dry, fault) == Writes(dry) /\ fault = "write" /\ ~DeleteRaises(dry, fault)

\* Line 135 was reached and returned.
DeleteDone(dry, fault) == Deletes(dry) /\ ~DeleteRaises(dry, fault)

\* The write was reached and returned.
WriteDone(dry, fault) ==
    Writes(dry) /\ ~DeleteRaises(dry, fault) /\ ~WriteRaises(dry, fault)

\* The add placed before the write: reached although the write raises.
RecordDoneBeforeWrite(dry, fault) == Records(dry) /\ ~DeleteRaises(dry, fault)

\* Lines 152 and 175 come after the delete and the write: they are reached
\* when neither raised.
RecordDone(dry, fault) ==
    Records(dry) /\ ~DeleteRaises(dry, fault) /\ ~WriteRaises(dry, fault)

\* One call of copy_file on finder f's file for name p, from destination d and
\* sets c, s, u, with options l (--link) and dry (--dry-run): what it leaves.
\* A delete or a write that raises leaves the entry as it found it.
copy_file(d, c, s, u, l, dry, f, p, t, fault) ==
    LET st == file_status(d, c, s, l, f, p)
        seen == [dest |-> d, copied |-> c, symlinked |-> s, unmodified |-> u,
                 ops |-> <<>>, status |-> st.status, detail |-> st.detail,
                 raised |-> st.raised, failed |-> FALSE]
    IN  IF st.raised THEN seen
        ELSE IF st.status = STATUS_SKIP
        THEN [seen EXCEPT !.unmodified =
                 IF st.detail = REASON_NOT_MODIFIED THEN u \cup {p} ELSE u]
        ELSE [seen EXCEPT
                 !.dest = IF WriteDone(dry, fault)
                          THEN [d EXCEPT ![p] = Written(l, f, p, t)]
                          ELSE IF DeleteDone(dry, fault) THEN [d EXCEPT ![p] = NoEntry]
                          ELSE d,
                 !.ops = (IF DeleteDone(dry, fault) THEN << <<"delete", p>> >> ELSE <<>>)
                         \o (IF WriteDone(dry, fault) THEN << <<"write", p>> >> ELSE <<>>),
                 !.symlinked = IF l /\ RecordDone(dry, fault) THEN s \cup {p} ELSE s,
                 !.copied = IF ~l /\ RecordDone(dry, fault) THEN c \cup {p} ELSE c,
                 !.failed = DeleteRaises(dry, fault) \/ WriteRaises(dry, fault)]

\* The faults a storage can show in one copy_file call.
Faults(may_fail) == IF may_fail THEN {"none", "delete", "write"} ELSE {"none"}

\* ------------------------------------------------------------- ignore patterns
\* Line 64: the patterns added by default.
DefaultIgnore == <<"CVS", ".*", "*~">>

\* Line 65: set(ignore_patterns).
ToSet(q) == {q[i] : i \in 1..Len(q)}

\* The defaults added whatever --no-default-ignore says.
ExtendedAlways(given, use_default) == given \o DefaultIgnore

\* Line 64 extends the list in place.
Extended(given, use_default) ==
    IF use_default THEN given \o DefaultIgnore ELSE given

\* Line 93: finder.list(ignore_patterns) has been called for finders 1..upto.
ListCalled(called, upto, patterns) ==
    [g \in Finders |-> IF g <= upto /\ called[g] = <<>> THEN <<patterns>> ELSE called[g]]

\* ------------------------------------------------------------- the summary
\* The summary line with "files" for a count above one only.
SummaryLinePluralAboveOne(v, c, s, u, l) ==
    LET actual_count == Cardinality(c) + Cardinality(s)
        unmodified_count == Cardinality(u)
    IN  IF v >= 1
        THEN << [count |-> actual_count,
                 noun |-> IF actual_count > 1 THEN "files" ELSE "file",
                 verb |-> IF l THEN "symlinked" ELSE "copied",
                 unmodified |-> IF unmodified_count # 0
                                THEN <<unmodified_count>> ELSE <<>>] >>
        ELSE <<>>

\* Lines 96-104: the words of the summary line, <<>> when none is written.
SummaryLine(v, c, s, u, l) ==
    LET actual_count == Cardinality(c) + Cardinality(s)
        unmodified_count == Cardinality(u)
    IN  IF v >= 1
        THEN << [count |-> actual_count,
                 noun |-> IF actual_count # 1 THEN "files" ELSE "file",
                 verb |-> IF l THEN "symlinked" ELSE "copied",
                 unmodified |-> IF unmodified_count # 0
                                THEN <<unmodified_count>> ELSE <<>>] >>
        ELSE <<>>

\* ------------------------------------------------------------- initial states
NoLast == [finder |-> 0, path |-> 0, status |-> STATUS_SKIP, detail |-> NO_DETAIL,
           claimed |-> FALSE, existed |-> FALSE, was_link |-> FALSE,
           src_t |-> 0, dst_t |-> 0, compared |-> FALSE, changed |-> FALSE,
           ops_before |-> 0]

NoneCalled == [g \in Finders |-> <<>>]

NoPrev == [ran |-> FALSE, ok |-> FALSE, link |-> FALSE, dry_run |-> FALSE]

NoTwin == [copied |-> {}, symlinked |-> {}, unmodified |-> {}, raised |-> FALSE]

\* Entries already at the destination before the first run: plain files.
InitEntries == {NoEntry} \cup {FileEntry(t, 0) : t \in Times}

\* The finders' files.
InitSources ==
    /\ listing \in [Finders -> SUBSET Paths]
    /\ \A f \in Finders \ {1} : listing[f] \subseteq 1..NumShared
    /\ src_mtime \in [Finders -> [Paths -> Times]]
    /\ \A f \in Finders : \A p \in Paths : p \notin listing[f] => src_mtime[f][p] = 1

\* The command object after __init__, before any run.
InitCommand ==
    /\ link = FALSE /\ dry_run = FALSE /\ interactive = FALSE
    /\ pc = "idle"
    /\ error = "none"
    /\ confirm = "-"
    /\ cursor = 0
    /\ copied_files = {} /\ symlinked_files = {} /\ unmodified_files = {}
    /\ last = NoLast
    /\ ops = <<>>
    /\ dest0 = dest
    /\ prev = NoPrev
    /\ twin = NoTwin
    /\ ignore_given = <<>>
    /\ ignore_patterns = {}
    /\ passed = NoneCalled
    /\ examined = <<>>
    /\ stdout = <<>>

\* The default options (lines 20, 29, 69) and a destination storage that works.
InitDefaults ==
    /\ verbosity = 1
    /\ use_default_ignore_patterns = TRUE
    /\ ignore_option = <<>>
    /\ faulty = FALSE

\* One run over any sources, any storage capabilities and any destination of
\* plain files; on win32 the storages report times and the destination is empty.
Init ==
    /\ InitSources
    /\ src_mtime_ok \in [Finders -> BOOLEAN]
    /\ dst_mtime_ok \in BOOLEAN
    /\ platform_win32 \in BOOLEAN
    /\ destination_local \in BOOLEAN
    /\ dest \in [Paths -> InitEntries]
    /\ platform_win32 =>
          /\ \A f \in Finders : src_mtime_ok[f]
          /\ dst_mtime_ok
          /\ \A p \in Paths : dest[p] = NoEntry
    /\ runs_left = 1
    /\ InitDefaults
    /\ InitCommand

\* MaxRuns runs in a row into a destination that starts empty, on a platform
\* with symlinks.
InitRerun ==
    /\ InitSources
    /\ src_mtime_ok \in [Finders -> BOOLEAN]
    /\ dst_mtime_ok \in BOOLEAN
    /\ platform_win32 = FALSE
    /\ destination_local \in BOOLEAN
    /\ dest = [p \in Paths |-> NoEntry]
    /\ runs_left = MaxRuns
    /\ InitDefaults
    /\ InitCommand

\* One run at any verbosity, over any sources and any destination of plain
\* files, with local storages that report times.
Verbosities == 0..2

InitReport ==
    /\ InitSources
    /\ src_mtime_ok = [f \in Finders |-> TRUE]
    /\ dst_mtime_ok = TRUE
    /\ platform_win32 = FALSE
    /\ destination_local = TRUE
    /\ dest \in [Paths -> InitEntries]
    /\ runs_left = 1
    /\ verbosity \in Verbosities
    /\ use_default_ignore_patterns = TRUE
    /\ ignore_option = <<>>
    /\ faulty = FALSE
    /\ InitCommand

\* MaxRuns runs with any --ignore list, with and without the default patterns,
\* into a local destination that starts empty.
IgnoreChoices == {<<>>, <<"*.bak">>, <<"CVS", "*.bak">>, <<"*.bak", "*.bak">>}

InitIgnore ==
    /\ InitSources
    /\ src_mtime_ok = [f \in Finders |-> TRUE]
    /\ dst_mtime_ok = TRUE
    /\ platform_win32 = FALSE
    /\ destination_local = TRUE
    /\ dest = [p \in Paths |-> NoEntry]
    /\ runs_left = MaxRuns
    /\ verbosity = 1
    /\ use_default_ignore_patterns \in BOOLEAN
    /\ ignore_option \in IgnoreChoices
    /\ faulty = FALSE
    /\ InitCommand

\* One run with the default options into a destination whose delete and write
\* calls may raise, over any sources and any destination of plain files.
InitFault ==
    /\ InitSources
    /\ src_mtime_ok = [f \in Finders |-> TRUE]
    /\ dst_mtime_ok \in BOOLEAN
    /\ platform_win32 = FALSE
    /\ destination_local \in BOOLEAN
    /\ dest \in [Paths -> InitEntries]
    /\ runs_left = 1
    /\ verbosity = 1
    /\ use_default_ignore_patterns = TRUE
    /\ ignore_option = <<>>
    /\ faulty = TRUE
    /\ InitCommand

\* ------------------------------------------------------------- handle_noargs
\* Lines 61-70: read the options, reset the three sets.
HandleNoargs ==
    /\ pc \in {"idle", "done", "failed"}
    /\ runs_left > 0
    /\ \E l \in BOOLEAN, d \in BOOLEAN, i \in BOOLEAN :
          /\ link' = l /\ dry_run' = d /\ interactive' = i
    /\ prev' = IF pc = "idle" THEN NoPrev
               ELSE IF pc = "failed" THEN [NoPrev EXCEPT !.ran = TRUE]
               ELSE [ran |-> TRUE, ok |-> TRUE, link |-> link, dry_run |-> dry_run]
    /\ copied_files' = {} /\ symlinked_files' = {} /\ unmodified_files' = {}
    /\ pc' = "precheck"
    /\ error' = "none"
    /\ confirm' = "-"
    /\ cursor' = 0
    /\ last' = NoLast
    /\ ops' = <<>>
    /\ runs_left' = runs_left - 1
    /\ dest0' = dest
    /\ twin' = NoTwin
    /\ ignore_given' = ignore_option
    /\ ignore_option' = Extended(ignore_option, use_default_ignore_patterns)
    /\ ignore_patterns' = ToSet(ignore_option')
    /\ passed' = NoneCalled
    /\ examined' = <<>>
    /\ stdout' = <<>>
    /\ UNCHANGED <<env, dest>>

\* The symlink checks in the other order.
SymlinkErrorDestinationFirst(l, win32, local) ==
    IF l /\ ~local THEN "UnsupportedDestination"
    ELSE IF l /\ win32 THEN "UnsupportedPlatform"
    ELSE "none"

\* Lines 72-77: the symlink checks.
SymlinkError(l, win32, local) ==
    IF l /\ win32 THEN "UnsupportedPlatform"
    ELSE IF l /\ ~local THEN "UnsupportedDestination"
    ELSE "none"

CheckSymlink ==
    /\ pc = "precheck"
    /\ error' = SymlinkError(link, platform_win32, destination_local)
    /\ pc' = IF error' = "none" THEN "prompt" ELSE "failed"
    /\ UNCHANGED <<env, dest, link, dry_run, interactive, confirm, cursor,
                   copied_files, symlinked_files, unmodified_files, last, ops,
                   runs_left, dest0, prev, twin, report, passed, examined, stdout>>

\* A prompt that cancels on "no" only.
CancelledOnNo(i, answer) == i /\ answer = "no"

\* Lines 80-90: the confirmation prompt.
Cancelled(i, answer) == i /\ answer # "yes"

Prompt ==
    /\ pc = "prompt"
    /\ \E answer \in Answers :
          /\ confirm' = IF interactive THEN answer ELSE "-"
          /\ error' = IF Cancelled(interactive, answer) THEN "UserCancelled" ELSE "none"
          /\ pc' = IF Cancelled(interactive, answer) THEN "failed" ELSE "collect"
    /\ UNCHANGED <<env, dest, link, dry_run, interactive, cursor,
                   copied_files, symlinked_files, unmodified_files, last, ops,
                   runs_left, dest0, prev, twin, report, passed, examined, stdout>>

\* The run goes on after copy_file raised.
AbortsNever(r) == FALSE

\* Nothing in handle_noargs or copy_file catches what copy_file raises.
Aborts(r) == r.raised \/ r.failed

\* Lines 92-94: the next discovered file goes through copy_file.
CopyFile ==
    /\ pc = "collect"
    /\ NextSlot(cursor) # 0
    /\ LET k == NextSlot(cursor)
           f == SlotFinder(k)
           p == SlotPath(k)
       IN  \E t \in Times, fault \in Faults(faulty) :
             LET r == copy_file(dest, copied_files, symlinked_files,
                                unmodified_files, link, dry_run, f, p, t, fault)
                 w == copy_file(dest0, twin.copied, twin.symlinked,
                                twin.unmodified, link, TRUE, f, p, t, fault)
             IN  /\ cursor' = k
                 /\ examined' = Append(examined, k)
                 /\ passed' = ListCalled(passed, f, ignore_patterns)
                 /\ dest' = r.dest
                 /\ copied_files' = r.copied
                 /\ symlinked_files' = r.symlinked
                 /\ unmodified_files' = r.unmodified
                 /\ ops' = ops \o r.ops
                 /\ pc' = IF Aborts(r) THEN "failed" ELSE pc
                 /\ error' = IF r.raised THEN "NotImplementedError"
                             ELSE IF r.failed THEN "StorageIOError" ELSE error
                 /\ last' = [finder |-> f, path |-> p, status |-> r.status,
                             detail |-> r.detail,
                             claimed |-> (p \in copied_files \cup symlinked_files),
                             existed |-> exists(dest, p),
                             was_link |-> islink(dest, p),
                             src_t |-> SourceLastModified(f, p),
                             dst_t |-> IF exists(dest, p)
                                       THEN modified_time(dest, p) ELSE 0,
                             compared |-> (/\ p \notin copied_files \cup symlinked_files
                                           /\ exists(dest, p)),
                             changed |-> (/\ p \notin copied_files \cup symlinked_files
                                          /\ exists(dest, p)
                                          /\ file_has_changed(dest, f, p)),
                             ops_before |-> Len(ops)]
                 /\ twin' = IF twin.raised THEN twin
                            ELSE [copied |-> w.copied, symlinked |-> w.symlinked,
                                  unmodified |-> w.unmodified, raised |-> w.raised]
    /\ UNCHANGED <<env, link, dry_run, interactive, confirm, runs_left, dest0, prev,
                   report, stdout>>

\* Lines 96-104: the loops are over, the summary is written.
Summary ==
    /\ pc = "collect"
    /\ NextSlot(cursor) = 0
    /\ pc' = "done"
    /\ passed' = ListCalled(passed, NumFinders, ignore_patterns)
    /\ stdout' = SummaryLine(verbosity, copied_files, symlinked_files,
                             unmodified_files, link)
    /\ UNCHANGED <<env, dest, link, dry_run, interactive, error, confirm, cursor,
                   copied_files, symlinked_files, unmodified_files, last, ops,
                   runs_left, dest0, prev, twin, report, examined>>

Next == HandleNoargs \/ CheckSymlink \/ Prompt \/ CopyFile \/ Summary

Spec == Init /\ [][Next]_vars

SpecRerun == InitRerun /\ [][Next]_vars

SpecReport == InitReport /\ [][Next]_vars

SpecIgnore == InitIgnore /\ [][Next]_vars

SpecFault == InitFault /\ [][Next]_vars

\* ------------------------------------------------------------- properties
NotModifiedSkip == last.status = STATUS_SKIP /\ last.detail = REASON_NOT_MODIFIED

AlreadySkip ==
    /\ last.status = STATUS_SKIP
    /\ last.detail \in {REASON_ALREADY_COPIED, REASON_ALREADY_LINKED}

\* The previous run was a finished Copy run that was not a dry run.
AfterCopyRun == prev.ran /\ prev.ok /\ ~prev.link /\ ~prev.dry_run

\* C1: idempotence of Copy mode.  A Copy run (no dry run) that follows a
\* finished Copy run (no dry run), the sources untouched in between, ends with
\* nothing copied and as many unmodified names as there are discovered files.
C1_Idempotence ==
    (pc = "done" /\ ~link /\ ~dry_run /\ AfterCopyRun)
        => /\ copied_files = {}
           /\ Cardinality(unmodified_files) = Cardinality(Discovered)

\* C2: priority override.  A file whose destination name an earlier finder also
\* yields is skipped as already copied or already linked, and the entry at that
\* name never comes from the later finder.
C2_PriorityOverride ==
    (last.path # 0 /\ \E f1 \in Finders :
                          f1 < last.finder /\ last.path \in listing[f1])
        => /\ AlreadySkip
           /\ dest[last.path].origin # last.finder

\* C3: staleness boundary.  In Copy mode, for a name not yet claimed whose
\* destination entry exists and is no symlink, both times readable, the file is
\* skipped as not modified (and the entry left alone) exactly when the source
\* time is at most the destination time; a newer source is copied.
C3_StalenessBoundary ==
    (/\ last.path # 0 /\ ~link /\ ~last.claimed
     /\ last.existed /\ ~last.was_link
     /\ src_mtime_ok[last.finder] /\ dst_mtime_ok)
        => /\ (/\ NotModifiedSkip
               /\ last.path \in unmodified_files
               /\ dest[last.path] = dest0[last.path])
              <=> (last.src_t <= last.dst_t)
           /\ (last.src_t > last.dst_t)
              => (last.status = STATUS_COPY /\ last.path \in copied_files)

\* C4: an unreadable destination time never causes a skip.  For a name not yet
\* claimed whose destination entry exists, when the destination storage cannot
\* report the modification time the file is not skipped as not modified: it is
\* copied or linked and recorded.
C4_UnreadableDestinationTime ==
    (last.path # 0 /\ ~last.claimed /\ last.existed /\ ~dst_mtime_ok)
        => /\ ~NotModifiedSkip
           /\ last.status = STATUS_COPY
           /\ last.path \in copied_files \cup symlinked_files

\* C5: dry-run purity.  A dry run performs no delete and no write: the
\* destination storage is, at every point of the run, what it was at its start.
C5_DryRunPurity == dry_run => (ops = <<>> /\ dest = dest0)

\* A dry run that finished after pretending to overwrite an existing entry.
C5_Witness ==
    /\ pc = "done" /\ dry_run
    /\ \E p \in copied_files \cup symlinked_files : exists(dest, p)

C7_ModeSwitchRewrites ==
    /\ (last.path # 0 /\ ~link /\ ~dry_run /\ last.was_link /\ ~last.claimed)
          => /\ last.status = STATUS_COPY
             /\ last.path \in copied_files
             /\ last.path \notin unmodified_files
             /\ dest[last.path].kind = "file"
             /\ Len(ops) >= 2
             /\ ops[Len(ops) - 1] = <<"delete", last.path>>
             /\ ops[Len(ops)] = <<"write", last.path>>
    /\ (pc = "done" /\ ~link /\ ~dry_run)
          => \A p \in DiscoveredPaths :
                islink(dest0, p) => (dest[p].kind = "file" /\ p \in copied_files)

\* A finished Copy run after a Symlink run, over a symlink whose time the
\* destination storage cannot report.
C7_Witness ==
    /\ pc = "done" /\ ~link /\ ~dry_run /\ prev.ok /\ prev.link /\ ~dst_mtime_ok
    /\ \E p \in DiscoveredPaths : islink(dest0, p) /\ dest[p].kind = "file"

\* C8: the three sets of a run are pairwise disjoint.
C8_Disjoint ==
    /\ copied_files \cap symlinked_files = {}
    /\ copied_files \cap unmodified_files = {}
    /\ symlinked_files \cap unmodified_files = {}

\* C9: cancellation.  An interactive run whose answer at the prompt is not
\* exactly "yes" fails as cancelled, having iterated no finder, recorded no name
\* and changed nothing at the destination; and an interactive run changes the
\* destination only after the answer "yes".
C9_Cancellation ==
    /\ (interactive /\ confirm \notin {"-", "yes"})
          => /\ pc = "failed" /\ error = "UserCancelled"
             /\ cursor = 0 /\ last = NoLast
             /\ copied_files = {} /\ symlinked_files = {} /\ unmodified_files = {}
             /\ ops = <<>> /\ dest = dest0
    /\ (interactive /\ (ops # <<>> \/ dest # dest0 \/ cursor # 0))
          => confirm = "yes"

\* A run with files to collect, cancelled by an answer that is almost "yes".
C9_Witness ==
    /\ pc = "failed" /\ error = "UserCancelled" /\ confirm = "Yes"
    /\ Discovered # {}

SymlinkErrors == {"UnsupportedPlatform", "UnsupportedDestination"}

\* A symlink check failed: the prompt was not shown, no finder was iterated and
\* the destination is untouched.
FailedEarly ==
    /\ pc = "failed"
    /\ confirm = "-" /\ cursor = 0 /\ last = NoLast
    /\ copied_files = {} /\ symlinked_files = {} /\ unmodified_files = {}
    /\ ops = <<>> /\ dest = dest0

\* C10 as stated: a Symlink run fails with UnsupportedPlatform when the platform
\* has no symlinks and with UnsupportedDestination when the destination storage
\* is not local, before the prompt, the finders and any mutation; a Copy run
\* raises neither.
C10_SymlinkPreconditions ==
    pc \notin {"idle", "precheck"}
        => /\ (link /\ platform_win32) => error = "UnsupportedPlatform"
           /\ (link /\ ~destination_local) => error = "UnsupportedDestination"
           /\ error \in SymlinkErrors => FailedEarly
           /\ ~link => error \notin SymlinkErrors

\* C10 amended: as C10, with UnsupportedDestination raised when the destination
\* storage is not local and the platform has symlinks (the platform is checked
\* first).
C10_SymlinkPreconditionsInOrder ==
    pc \notin {"idle", "precheck"}
        => /\ (link /\ platform_win32) => error = "UnsupportedPlatform"
           /\ (link /\ ~platform_win32 /\ ~destination_local)
                 => error = "UnsupportedDestination"
           /\ error \in SymlinkErrors => FailedEarly
           /\ ~link => error \notin SymlinkErrors

\* An interactive Symlink run with files to collect, stopped by the platform
\* check although the destination is not local either.
C10_Witness ==
    /\ pc = "failed" /\ error = "UnsupportedPlatform"
    /\ link /\ interactive /\ ~destination_local /\ Discovered # {}

\* C11: an opaque destination in Copy mode.  With a destination storage that
\* has no local paths, a Copy run never calls destination_storage.path() after
\* the start-up check: no run ends with the NotImplementedError that path()
\* raises.
C11_OpaqueDestinationCopy ==
    (~destination_local /\ ~link) => error # "NotImplementedError"

\* C12: the summary line.  A finished run at verbosity >= 1 has written one
\* summary line: its count is |copied| + |symlinked|, it says "files" exactly
\* when the count is not 1, "symlinked" exactly in Symlink mode and "copied"
\* otherwise, and it carries the unmodified count exactly when that is above 0.
\* At verbosity 0 no summary line is written.
C12_SummaryLine ==
    pc = "done"
        => IF verbosity >= 1
           THEN /\ Len(stdout) = 1
                /\ stdout[1].count =
                      Cardinality(copied_files) + Cardinality(symlinked_files)
                /\ stdout[1].noun = (IF stdout[1].count = 1 THEN "file" ELSE "files")
                /\ stdout[1].verb = (IF link THEN "symlinked" ELSE "copied")
                /\ stdout[1].unmodified =
                      (IF Cardinality(unmodified_files) > 0
                       THEN <<Cardinality(unmodified_files)>> ELSE <<>>)
           ELSE stdout = <<>>

\* A finished run that wrote nothing and left one name as not modified.
C12_Witness ==
    /\ pc = "done" /\ verbosity = 2
    /\ copied_files = {} /\ symlinked_files = {}
    /\ Cardinality(unmodified_files) = 1
    /\ stdout # <<>>

\* The patterns of C13 for the list a run received.
ExpectedPatterns ==
    IF use_default_ignore_patterns
    THEN ToSet(ignore_given) \cup {"CVS", ".*", "*~"}
    ELSE ToSet(ignore_given)

\* C13: the effective ignore patterns.  Every finder's list() is called with
\* the caller's patterns united with 'CVS', '.*' and '*~' when the default
\* patterns are in use, and with exactly the caller's patterns when they are
\* not; a finished run has called every finder, each with that same set.
C13_IgnorePatterns ==
    /\ \A f \in Finders : passed[f] # <<>> => passed[f] = <<ExpectedPatterns>>
    /\ pc = "done" => \A f \in Finders : passed[f] # <<>>

\* A finished run without the default patterns whose caller listed one of them.
C13_Witness ==
    /\ pc = "done" /\ ~use_default_ignore_patterns
    /\ ignore_given = <<"CVS", "*.bak">>
    /\ \A f \in Finders : passed[f] = << {"CVS", "*.bak"} >>

\* C14: the change-detection function.  Whenever file_has_changed was called
\* for a file, it answered TRUE if the destination's time could not be read,
\* whatever the source; otherwise it answered TRUE exactly when the source's
\* time, taken as 0 if it could not be read, is strictly greater than the
\* destination's time.  It raises nothing: with a destination that has local
\* paths no NotImplementedError reaches the caller.
C14_ChangeDetection ==
    last.compared =>
        /\ ~dst_mtime_ok => last.changed
        /\ dst_mtime_ok =>
              (last.changed <=>
                  (IF src_mtime_ok[last.finder]
                   THEN src_mtime[last.finder][last.path]
                   ELSE 0) > last.dst_t)
        /\ destination_local => error # "NotImplementedError"

\* Both times were read and are equal: the file counts as unchanged.
C14_Witness ==
    /\ last.compared /\ dst_mtime_ok /\ src_mtime_ok[last.finder]
    /\ src_mtime[last.finder][last.path] = last.dst_t
    /\ ~last.changed

\* C15: NotModified is confined to Copy mode on entries that are not symlinks.
\* A file is skipped as not modified only in Copy mode, over an entry that
\* exists and is not a symlink.  So in Symlink mode unmodified_files is empty
\* all through the run and a finished run has every discovered name in
\* symlinked_files; and in Copy mode the first file met for a name whose entry
\* is a symlink is never skipped: it is recorded as copied and, unless the run
\* is a dry run, a plain file replaces the symlink.
C15_NotModifiedConfined ==
    /\ NotModifiedSkip => (~link /\ last.existed /\ ~last.was_link)
    /\ link => unmodified_files = {}
    /\ (pc = "done" /\ link) => symlinked_files = DiscoveredPaths
    /\ (last.path # 0 /\ ~link /\ last.was_link /\ ~last.claimed)
          => /\ last.status = STATUS_COPY
             /\ last.path \in copied_files
             /\ ~dry_run => dest[last.path] = FileEntry(src_mtime[last.finder][last.path],
                                                        last.finder)

\* A finished Symlink run over the plain files of a finished Copy run, with a
\* destination whose times cannot be read (every file counts as changed).
C15_Witness ==
    /\ pc = "done" /\ link /\ ~dry_run /\ AfterCopyRun /\ ~dst_mtime_ok
    /\ DiscoveredPaths # {}
    /\ \A p \in DiscoveredPaths : dest0[p].kind = "file" /\ dest[p].kind = "link"
    /\ symlinked_files = DiscoveredPaths

\* The storage calls the last copy_file call completed, in order.
LastOps == SubSeq(ops, last.ops_before + 1, Len(ops))

\* C16: delete before write.  Outside a dry run, a file whose action proceeds
\* and completes has made exactly one delete of its name and then one write
\* to it, and its name is in copied_files or symlinked_files; a name is
\* recorded only when the write was done, so a file whose delete or write
\* raised has written nothing after the failure and is not recorded; a file
\* that was skipped has made no delete and no write.
C16_DeleteBeforeWrite ==
    /\ (last.path # 0 /\ last.status = STATUS_COPY /\ ~dry_run /\ error = "none")
          => /\ LastOps = << <<"delete", last.path>>, <<"write", last.path>> >>
             /\ last.path \in (IF link THEN symlinked_files ELSE copied_files)
    /\ (last.path # 0 /\ last.status = STATUS_COPY /\ ~dry_run /\ error # "none")
          => /\ LastOps \in {<<>>, << <<"delete", last.path>> >>}
             /\ last.path \notin copied_files \cup symlinked_files
    /\ (last.path # 0 /\ last.status = STATUS_SKIP) => LastOps = <<>>

\* The write raised after the delete had removed an entry: the entry is gone
\* and the name is not recorded.
C16_Witness ==
    /\ ~dry_run /\ error = "StorageIOError" /\ last.existed
    /\ LastOps = << <<"delete", last.path>> >>
    /\ dest[last.path] = NoEntry
    /\ last.path \notin copied_files \cup symlinked_files

\* C17: fail fast on storage errors.  When a delete or a write raises while a
\* file is processed, the run is over at that file: it is the last one
\* examined, nothing was written after the failing call, no summary line is
\* printed, the error is the run's outcome, and the only step left is a new
\* invocation of the command.
C17_FailFast ==
    /\ [](error = "StorageIOError"
             => /\ pc = "failed"
                /\ stdout = <<>>
                /\ examined # <<>> /\ examined[Len(examined)] = cursor
                /\ SlotPath(cursor) = last.path
                /\ Len(LastOps) <= 1
                /\ \A i \in 1..Len(LastOps) : LastOps[i][1] = "delete")
    /\ [][error = "StorageIOError" => pc' = "precheck"]_vars

\* A delete or write raised on a file that was not the last one discovered.
C17_Witness ==
    /\ error = "StorageIOError" /\ pc = "failed"
    /\ NextSlot(cursor) # 0
    /\ Len(examined) < Cardinality(Discovered)

\* How many times the run called the storage operation op on name p.
Count(op, p) == Cardinality({i \in 1..Len(ops) : ops[i] = <<op, p>>})

\* C18: at most one writer per name per run.  A copy_file call for a name
\* that is already in copied_files or symlinked_files, dry run or not, skips
\* the file as already copied or already linked, makes no delete and no
\* write, and leaves the destination and the three sets as they were; and no
\* name is deleted or written more than once in a run.
C18_OneWriter ==
    /\ [][(/\ pc = "collect"
           /\ cursor' # cursor
           /\ SlotPath(cursor') \in copied_files \cup symlinked_files)
          => /\ last'.status = STATUS_SKIP
             /\ last'.detail = (IF SlotPath(cursor') \in copied_files
                                THEN REASON_ALREADY_COPIED
                                ELSE REASON_ALREADY_LINKED)
             /\ UNCHANGED <<dest, ops, copied_files, symlinked_files,
                            unmodified_files>>]_vars
    /\ [](\A p \in Paths : Count("delete", p) <= 1 /\ Count("write", p) <= 1)

\* In a dry run the second finder's file met a name the first finder's file
\* had claimed, and was skipped.
C18_Witness ==
    /\ dry_run /\ last.claimed /\ last.finder > 1
    /\ last.path \in copied_files
    /\ last.status = STATUS_SKIP /\ last.detail = REASON_ALREADY_COPIED

\* C19: complete accounting.  When a run finishes without error the names in
\* copied_files, symlinked_files and unmodified_files are exactly the names
\* the finders produced, so the three counts add up to at least the number of
\* distinct names; and every discovered file was examined exactly once, the
\* finders taken in order.
C19_CompleteAccounting ==
    pc = "done" =>
        /\ copied_files \cup symlinked_files \cup unmodified_files = DiscoveredPaths
        /\ Cardinality(copied_files) + Cardinality(symlinked_files)
              + Cardinality(unmodified_files) >= Cardinality(DiscoveredPaths)
        /\ Len(examined) = Cardinality(Discovered)
        /\ {examined[i] : i \in 1..Len(examined)} = Discovered
        /\ \A i, j \in 1..Len(examined) :
              i < j => /\ examined[i] # examined[j]
                       /\ SlotFinder(examined[i]) <= SlotFinder(examined[j])

\* A finished run over three files, two of them for the same name.
C19_Witness ==
    /\ pc = "done"
    /\ Len(examined) = 3
    /\ Cardinality(DiscoveredPaths) = 2
    /\ SlotPath(examined[1]) = SlotPath(examined[3])

\* The first finder, in order, that yields name p.
FirstFinder(p) == CHOOSE f \in Finders :
                      p \in listing[f] /\ \A g \in Finders : p \in listing[g] => f <= g

\* C20: final content follows finder priority.  After a Copy run that is not
\* a dry run and finishes without error, the entry of every discovered name
\* is either the one that was there before the run or the copy of the file of
\* the first finder that yields the name: never a later finder's file.
C20_FinalContentPriority ==
    (pc = "done" /\ ~link /\ ~dry_run)
        => \A p \in DiscoveredPaths :
              \/ dest[p] = dest0[p]
              \/ dest[p].origin = FirstFinder(p)

====
